---- MODULE Spec2Model ----
(***************************************************************************)
(* State-machine model of www/js/lib/uiUtil.js (Kiwix JS user-interface    *)
(* utilities): feedNodeWithBlob, displayFileDownloadAlert,                 *)
(* checkUpdateStatus, applyAnimationToSection, applyAppTheme and           *)
(* showReturnLink, with the DOM, the WebP decode engine, the settings      *)
(* store and the cache storage as environment.                             *)
(*                                                                         *)
(* JavaScript strings are modelled as sequences of one-character strings,  *)
(* so that the regular expressions of the source are computed, not assumed.*)
(***************************************************************************)
EXTENDS Integers, Sequences, FiniteSets, TLC

VARIABLES
    \* ---- feedNodeWithBlob (uiUtil.js 48-74) ----
    webpMachine,      \* TRUE iff the global webpMachine is an initialised decoder
    machineBusy,      \* the decoder is decoding an image (it rejects while busy)
    feedCalls,        \* one record per call of feedNodeWithBlob, in call order
    nodeAttr,         \* current value of the fed attribute of the node (<<>> = not set)
    loadListeners,    \* 'load' listeners registered on the node: the URL each one revokes
    revokeCount,      \* per call index: how often its object URL was revoked
    revokedFor,       \* per call index, history: the references whose 'load' revoked its URL
    loads,            \* number of 'load' events the node has fired
    \* ---- displayFileDownloadAlert (uiUtil.js 188-228) ----
    downloadAlertSetup,    \* module flag, line 188
    downloadAlertDisplay,  \* style.display of #downloadAlert
    downloadHandlers,      \* click listeners on its button[data-hide]
    download,              \* record of the last call: title, directive, filename, ...
    downloadCalls,         \* number of calls so far
    \* ---- checkUpdateStatus (uiUtil.js 233-260) ----
    swSupported,           \* 'serviceWorker' in navigator
    pwaUpdateNeeded,       \* appstate.pwaUpdateNeeded
    updateAlertDisplay,    \* style.display of #updateAlert
    updateHandlers,        \* click listeners on its button[data-hide]
    persistentMessage,     \* the version named in #persistentMessage (<<>> = never written)
    paramsCacheNames,      \* params.cacheNames
    checks,                \* one record per call of checkUpdateStatus, in call order
    flagRises,             \* how often pwaUpdateNeeded went from false to true
    lastKeyList,           \* history: the key list the latest caches.keys() handler was given
    \* ---- applyAppTheme (uiUtil.js 393-473) ----
    htmlClasses,           \* classList of <html>
    footerClasses,         \* classList of <footer>
    datasetTheme,          \* html.dataset.theme (<<>> when absent or empty)
    iframeClasses,         \* classList of iframe#articleContent
    docAccessible,         \* iframe.contentDocument is not null
    docLinks,              \* link#kiwixJSTheme elements of the embedded document, in order:
                           \* each is the content theme its href names
    docIsArticle,          \* doc.title differs from the placeholder title
    configActive,          \* #liConfigureNav has class 'active'
    helpDisplay,           \* style.display of each existing '<theme>-help' panel
    viewArticleDisplay,    \* style.display of #viewArticle
    viewArticleHandlers,   \* click listeners on #viewArticle
    themeLog,              \* history: the selectors applied so far, how many of the
                           \* latest calls were made with no environment step between,
                           \* whether the latest call threw, and whether the document
                           \* was accessible at each call
    \* ---- the prefix derivation of checkUpdateStatus (uiUtil.js 242), on its own ----
    appId,                 \* an app cache identifier (cacheNames.app; <<"none">> = none given)
    cachePrefix,           \* the local cachePrefix derived from it (<<"unset">> before line 242)
    \* ---- applyAnimationToSection (uiUtil.js 314-379) ----
    sectionShown,          \* per section element: it is not hidden (display is not 'none')
    sectionClasses,        \* per section element: its slide classes
    timers,                \* pending setTimeout callbacks, in the order they will fire
    sectionLog,            \* history: the section requested last, and how many requests
    \* ---- the click handler of #viewArticle (uiUtil.js 458-471) ----
    homeNavActive,         \* #liHomeNav has class 'active'
    navigationButtonsDisplay,   \* style.display of #navigationButtons
    formArticleSearchDisplay,   \* style.display of #formArticleSearch
    returnRuns             \* history: how many handlers the latest click ran

feedVars == <<webpMachine, machineBusy, feedCalls, nodeAttr, loadListeners, revokeCount,
              revokedFor, loads>>
downloadVars == <<downloadAlertSetup, downloadAlertDisplay, downloadHandlers, download, downloadCalls>>
updateVars == <<swSupported, pwaUpdateNeeded, updateAlertDisplay, updateHandlers,
                persistentMessage, paramsCacheNames, checks, flagRises, lastKeyList>>
themeVars == <<htmlClasses, footerClasses, datasetTheme, iframeClasses, docAccessible, docLinks,
               docIsArticle, configActive, helpDisplay, viewArticleDisplay, viewArticleHandlers,
               themeLog>>
prefixVars == <<appId, cachePrefix>>
sectionVars == <<sectionShown, sectionClasses, timers, sectionLog>>
returnVars == <<homeNavActive, navigationButtonsDisplay, formArticleSearchDisplay, returnRuns>>
vars == <<feedVars, downloadVars, updateVars, themeVars, prefixVars, sectionVars, returnVars>>

(***************************************************************************)
(* Bounds of the model.                                                    *)
(***************************************************************************)
MaxFeedCalls == 2
MaxLoads == 2
MaxDownloadCalls == 2
MaxChecks == 2
MaxThemeCalls == 3
\* calls of checkUpdateStatus where it runs together with displayFileDownloadAlert
MaxAlertChecks == 1
\* longest app cache identifier of the prefix derivation
MaxIdLen == 3
\* calls of applyAnimationToSection
MaxSwitches == 3

(***************************************************************************)
(* Strings.                                                                *)
(***************************************************************************)
ToLower(c) ==
    CASE c = "A" -> "a" [] c = "B" -> "b" [] c = "E" -> "e" [] c = "G" -> "g"
      [] c = "I" -> "i" [] c = "M" -> "m" [] c = "P" -> "p" [] c = "W" -> "w"
      [] OTHER -> c

Digits == {"0", "1", "2", "3", "4", "5", "6", "7", "8", "9"}

\* the positions at which p occurs in s
Occurrences(s, p) ==
    {i \in 1..(Len(s) - Len(p) + 1) : SubSeq(s, i, i + Len(p) - 1) = p}

Contains(s, p) == Occurrences(s, p) # {}

LowerCase(s) == [i \in 1..Len(s) |-> ToLower(s[i])]

(***************************************************************************)
(* feedNodeWithBlob(node, nodeAttribute, content, mimeType, callback)      *)
(***************************************************************************)
M_webp == <<"i", "m", "a", "g", "e", "/", "w", "e", "b", "p">>
M_WebP == <<"I", "M", "A", "G", "E", "/", "W", "e", "b", "P">>
M_png == <<"i", "m", "a", "g", "e", "/", "p", "n", "g">>
M_web == <<"i", "m", "a", "g", "e", "/", "w", "e", "b">>
MimeTypes == {M_webp, M_WebP, M_png, M_web}

\* /image\/webp/i.test(mimeType): an unanchored, case-insensitive search
IsWebP(mimeType) == Contains(LowerCase(mimeType), M_webp)

Ev(e, a) == [ev |-> e, arg |-> a]
NoArg == <<>>

\* URL.createObjectURL(blob) of call i; the data: URI the decoder yields for call i
ObjectURL(i) == <<"blob:", i>>
DataURI(i) == <<"data:", i>>

Callbacks(log) == SelectSeq(log, LAMBDA e : e.ev = "callback")
AttrSets(log) == SelectSeq(log, LAMBDA e : e.ev = "setAttribute")
Throws(log) == SelectSeq(log, LAMBDA e : e.ev = "throw")
\* FeedBlob with the callback invoked after setAttribute instead of before it
FeedBlobCallbackLast(url, hasCb, cbThrows, attrThrows) ==
    LET cb == IF hasCb THEN <<Ev("callback", url)>> ELSE <<>> IN
    IF attrThrows
    THEN [log |-> <<Ev("addEventListener", url), Ev("throw", NoArg)>>,
          pc |-> "threw", listened |-> TRUE, attr |-> <<>>]
    ELSE IF hasCb /\ cbThrows
    THEN [log |-> <<Ev("addEventListener", url), Ev("setAttribute", url)>> \o cb
                      \o <<Ev("throw", NoArg)>>,
          pc |-> "threw", listened |-> TRUE, attr |-> url]
    ELSE [log |-> <<Ev("addEventListener", url), Ev("setAttribute", url)>> \o cb
                      \o <<Ev("return", NoArg)>>,
          pc |-> "returned", listened |-> TRUE, attr |-> url]

\* Lines 64-72, the synchronous path. cbThrows/attrThrows: whether the caller's
\* callback and node.setAttribute throw. attr = <<>> means the attribute was not set.
FeedBlob(url, hasCb, cbThrows, attrThrows) ==
    LET cb == IF hasCb THEN <<Ev("callback", url)>> ELSE <<>> IN
    IF hasCb /\ cbThrows
    THEN [log |-> cb \o <<Ev("throw", NoArg)>>,
          pc |-> "threw", listened |-> FALSE, attr |-> <<>>]
    ELSE IF attrThrows
    THEN [log |-> cb \o <<Ev("addEventListener", url), Ev("throw", NoArg)>>,
          pc |-> "threw", listened |-> TRUE, attr |-> <<>>]
    ELSE [log |-> cb \o <<Ev("addEventListener", url), Ev("setAttribute", url),
                          Ev("return", NoArg)>>,
          pc |-> "returned", listened |-> TRUE, attr |-> url]

\* Lines 54-58, the fulfilment handler of the decode promise. A throw inside it
\* rejects the promise that .then() returned, which the .catch() handler receives.
ThenHandlerResult(uri, hasCb, cbThrows, attrThrows) ==
    LET cb == IF hasCb THEN <<Ev("callback", uri)>> ELSE <<>> IN
    IF hasCb /\ cbThrows
    THEN [log |-> cb, pc |-> "thenThrew", attr |-> <<>>]
    ELSE IF attrThrows
    THEN [log |-> cb, pc |-> "thenThrew", attr |-> <<>>]
    ELSE [log |-> cb \o <<Ev("setAttribute", uri)>>, pc |-> "done", attr |-> uri]

\* CatchHandlerLog that only logs the failure
CatchHandlerSilent(hasCb, cbThrows) == <<Ev("console.error", NoArg)>>

\* Lines 59-62, the rejection handler. A throw inside it is an unhandled rejection:
\* nothing runs after it and nothing reaches the caller, who returned long before.

CatchHandlerLog(hasCb, cbThrows) ==
    <<Ev("console.error", NoArg)>>
        \o (IF hasCb THEN <<Ev("callback", NoArg)>> ELSE <<>>)
        \o (IF hasCb /\ cbThrows THEN <<Ev("unhandledrejection", NoArg)>> ELSE <<>>)

\* DecodeAdmission of an engine that starts every decode it is asked for
DecodeAdmitsAlways(busy) == "decoding"

\* webpMachine.decode(content): the engine is single threaded and rejects an image
\* while it is busy (lines 51-53); otherwise the decode is in flight
DecodeAdmission(busy) == IF busy THEN "rejected" ELSE "decoding"

FeedInit(wm) ==
    /\ webpMachine = wm
    /\ machineBusy = FALSE
    /\ feedCalls = <<>>
    /\ nodeAttr = <<>>
    /\ loadListeners = <<>>
    /\ revokeCount = [i \in 1..MaxFeedCalls |-> 0]
    /\ revokedFor = [i \in 1..MaxFeedCalls |-> {}]
    /\ loads = 0

\* The call itself: lines 48-74. On the decode path (50-54) it only starts the
\* decode and returns; the decoder rejects an image when it is busy (comment, 51).
FeedNodeWithBlob(mimeType, hasCb, cbThrows, attrThrows) ==
    /\ Len(feedCalls) < MaxFeedCalls
    /\ LET i == Len(feedCalls) + 1 IN
       IF webpMachine /\ IsWebP(mimeType)
       THEN /\ ~cbThrows /\ ~attrThrows
            /\ feedCalls' = Append(feedCalls,
                   [mime |-> mimeType, hasCallback |-> hasCb, path |-> "webp",
                    pc |-> DecodeAdmission(machineBusy),
                    log |-> <<Ev("decode", NoArg), Ev("return", NoArg)>>,
                    ref |-> <<>>, decodeFailed |-> machineBusy, attrAtReturn |-> nodeAttr])
            /\ machineBusy' = TRUE
            /\ UNCHANGED <<nodeAttr, loadListeners>>
       ELSE LET r == FeedBlob(ObjectURL(i), hasCb, cbThrows, attrThrows)
                attr == IF r.attr # <<>> THEN r.attr ELSE nodeAttr
            IN  /\ (cbThrows => hasCb)
                /\ feedCalls' = Append(feedCalls,
                       [mime |-> mimeType, hasCallback |-> hasCb, path |-> "blob",
                        pc |-> r.pc, log |-> r.log, ref |-> ObjectURL(i),
                        decodeFailed |-> FALSE, attrAtReturn |-> attr])
                /\ nodeAttr' = attr
                /\ loadListeners' = IF r.listened THEN Append(loadListeners, i)
                                    ELSE loadListeners
                /\ UNCHANGED machineBusy
    /\ UNCHANGED <<webpMachine, revokeCount, revokedFor, loads>>
    /\ UNCHANGED <<downloadVars, updateVars, themeVars, prefixVars, sectionVars, returnVars>>

\* webpMachine.decode(content) settles: fulfilled with a data: URI, or rejected.
DecodeSettle(i, ok) ==
    /\ i \in 1..Len(feedCalls)
    /\ feedCalls[i].pc = "decoding"
    /\ feedCalls' = [feedCalls EXCEPT
           ![i].pc = IF ok THEN "resolved" ELSE "rejected",
           ![i].ref = IF ok THEN DataURI(i) ELSE <<>>,
           ![i].decodeFailed = ~ok]
    /\ machineBusy' = FALSE
    /\ UNCHANGED <<webpMachine, nodeAttr, loadListeners, revokeCount, revokedFor, loads>>
    /\ UNCHANGED <<downloadVars, updateVars, themeVars, prefixVars, sectionVars, returnVars>>

ThenHandler(i, cbThrows, attrThrows) ==
    /\ i \in 1..Len(feedCalls)
    /\ feedCalls[i].pc = "resolved"
    /\ (cbThrows => feedCalls[i].hasCallback)
    /\ LET c == feedCalls[i]
           r == ThenHandlerResult(c.ref, c.hasCallback, cbThrows, attrThrows)
       IN  /\ feedCalls' = [feedCalls EXCEPT ![i].pc = r.pc, ![i].log = c.log \o r.log]
           /\ nodeAttr' = IF r.attr # <<>> THEN r.attr ELSE nodeAttr
    /\ UNCHANGED <<webpMachine, machineBusy, loadListeners, revokeCount, revokedFor, loads>>
    /\ UNCHANGED <<downloadVars, updateVars, themeVars, prefixVars, sectionVars, returnVars>>

CatchHandler(i, cbThrows) ==
    /\ i \in 1..Len(feedCalls)
    /\ feedCalls[i].pc \in {"rejected", "thenThrew"}
    /\ (cbThrows => feedCalls[i].hasCallback)
    /\ LET c == feedCalls[i] IN
       feedCalls' = [feedCalls EXCEPT
           ![i].pc = "done",
           ![i].log = c.log \o CatchHandlerLog(c.hasCallback, cbThrows)]
    /\ UNCHANGED <<webpMachine, machineBusy, nodeAttr, loadListeners, revokeCount, revokedFor, loads>>
    /\ UNCHANGED <<downloadVars, updateVars, themeVars, prefixVars, sectionVars, returnVars>>

\* The node fires 'load': every listener registered at line 69 runs and revokes its URL.
NodeLoad ==
    /\ loads < MaxLoads
    /\ nodeAttr # <<>>
    /\ loads' = loads + 1
    /\ revokeCount' = [i \in 1..MaxFeedCalls |->
           revokeCount[i] + Cardinality({k \in 1..Len(loadListeners) : loadListeners[k] = i})]
    \* the event is the load of the reference the attribute holds
    /\ revokedFor' = [i \in 1..MaxFeedCalls |->
           IF \E k \in 1..Len(loadListeners) : loadListeners[k] = i
           THEN revokedFor[i] \cup {nodeAttr} ELSE revokedFor[i]]
    /\ UNCHANGED <<webpMachine, machineBusy, feedCalls, nodeAttr, loadListeners>>
    /\ UNCHANGED <<downloadVars, updateVars, themeVars, prefixVars, sectionVars, returnVars>>

NextFeed ==
    \/ \E m \in MimeTypes, hasCb, cbThrows, attrThrows \in BOOLEAN :
           FeedNodeWithBlob(m, hasCb, cbThrows, attrThrows)
    \/ \E i \in 1..MaxFeedCalls, ok \in BOOLEAN : DecodeSettle(i, ok)
    \/ \E i \in 1..MaxFeedCalls, cbThrows, attrThrows \in BOOLEAN :
           ThenHandler(i, cbThrows, attrThrows)
    \/ \E i \in 1..MaxFeedCalls, cbThrows \in BOOLEAN : CatchHandler(i, cbThrows)
    \/ NodeLoad

(***************************************************************************)
(* displayFileDownloadAlert(title, download, contentType, content)         *)
(***************************************************************************)
T_docs == <<"/", "d", "o", "c", "s", "/", "M", "y", " ", "F", "i", "l", "e", ".", "t", "x", "t">>
T_plain == <<"a", ":", "b", "?">>
T_dir == <<"d", "/", "e", "/">>
T_deep == <<"a", "/", "b", "\\", "c", "/", "x", "*", "|", "y">>
T_file == <<"f", ".", "c">>
Titles == {T_docs, T_plain, T_dir, T_deep, T_file}

D_name == <<"r", "<", "s", ">", ".", "c">>
D_path == <<"p", "/", "q", " ", "\"">>
\* the download argument: boolean true, or the file name to use
Directives == {[isTrue |-> TRUE, name |-> <<>>],
               [isTrue |-> FALSE, name |-> D_name],
               [isTrue |-> FALSE, name |-> D_path]}

ContentTypes == {"", "text/plain"}

\* title.replace(/^.*\/([^\/]+)$/, '$1'): the greedy .* runs to the last slash; the
\* pattern matches only if at least one character follows that slash
TitleTail(title) ==
    LET slashes == {i \in 1..Len(title) : title[i] = "/"} IN
    IF slashes = {} THEN title
    ELSE LET last == CHOOSE i \in slashes : \A j \in slashes : j <= i IN
         IF last = Len(title) THEN title ELSE SubSeq(title, last + 1, Len(title))

\* the character class of line 205: / \ : * ? " < > |
UnsafeChars == {"/", "\\", ":", "*", "?", "\"", "<", ">", "|"}

\* filename.replace(/[\/\\:*?"<>|]/g, '_')
MakeSafe(name) == [i \in 1..Len(name) |-> IF name[i] \in UnsafeChars THEN "_" ELSE name[i]]

\* Filename with the replacement of line 205 lacking its g flag
FirstCharOnly(title, directive) ==
    LET raw == IF directive.isTrue THEN TitleTail(title) ELSE directive.name
        hit == {i \in 1..Len(raw) : raw[i] \in UnsafeChars}
    IN  IF hit = {} THEN raw
        ELSE [i \in 1..Len(raw) |->
                 IF i = (CHOOSE k \in hit : \A j \in hit : k <= j) THEN "_" ELSE raw[i]]

\* lines 203-205
Filename(title, directive) ==
    MakeSafe(IF directive.isTrue THEN TitleTail(title) ELSE directive.name)

\* WireDismiss without the guard of line 192
AlwaysWire(setup, handlers) == handlers + 1

\* lines 192-196: the dismiss handler is added only while the flag is unset

WireDismiss(setup, handlers) == IF ~setup THEN handlers + 1 ELSE handlers

DownloadInit ==
    /\ downloadAlertSetup = FALSE
    /\ downloadAlertDisplay = "none"
    /\ downloadHandlers = 0
    /\ download = [title |-> <<>>, directive |-> [isTrue |-> TRUE, name |-> <<>>],
                   filename |-> <<>>, contentType |-> "", anchors |-> 0,
                   anchorHandlers |-> 0, searchingHidden |-> FALSE]
    /\ downloadCalls = 0

\* clickThrows: a.click() throws (line 216); msSaveBlob: navigator.msSaveBlob exists
DisplayFileDownloadAlert(title, directive, contentType, clickThrows, msSaveBlob) ==
    /\ downloadCalls < MaxDownloadCalls
    \* the fallback is reached only after a throw; the title is read only at line 203,
    \* when download === true
    /\ (msSaveBlob => clickThrows)
    /\ (~directive.isTrue => title = T_docs)
    /\ downloadCalls' = downloadCalls + 1
    /\ downloadAlertDisplay' = "block"
    /\ downloadHandlers' = WireDismiss(downloadAlertSetup, downloadHandlers)
    /\ downloadAlertSetup' = TRUE
    /\ download' = [title |-> title, directive |-> directive,
                    filename |-> Filename(title, directive),
                    contentType |-> IF contentType = "" THEN "application/octet-stream"
                                    ELSE contentType,
                    \* alertMessage.innerHTML is overwritten, then the anchor appended
                    anchors |-> 1,
                    anchorHandlers |-> IF clickThrows /\ msSaveBlob THEN 1 ELSE 0,
                    searchingHidden |-> TRUE]
    /\ UNCHANGED <<feedVars, updateVars, themeVars, prefixVars, sectionVars, returnVars>>

\* a click on the alert's button[data-hide]: lines 192-195
DismissDownloadAlert ==
    /\ downloadHandlers >= 1
    /\ downloadAlertDisplay = "block"
    /\ downloadAlertDisplay' = "none"
    /\ UNCHANGED <<downloadAlertSetup, downloadHandlers, download, downloadCalls>>
    /\ UNCHANGED <<feedVars, updateVars, themeVars, prefixVars, sectionVars, returnVars>>

(***************************************************************************)
(* checkUpdateStatus(appstate)                                             *)
(***************************************************************************)
K_app1 == <<"k", "w", "-", "1">>
K_app2 == <<"k", "w", "-", "2">>
K_app3 == <<"k", "w", "-", "3", ".", "1">>
K_assets == <<"k", "w", "a">>
K_other == <<"o", "-", "k", "w", "-", "2">>
K_plain == <<"k", "w">>
K_digit == <<"7", "k", "w">>

\* what settingsStore.getCacheNames hands to its callback
NoNames == [kind |-> "null", app |-> <<>>, assets |-> <<>>]
ErrorNames == [kind |-> "error", app |-> <<>>, assets |-> <<>>]
Names1 == [kind |-> "names", app |-> K_app1, assets |-> K_assets]
\* an app cache identifier without a digit, and one that begins with a digit
Names2 == [kind |-> "names", app |-> K_plain, assets |-> K_assets]
Names3 == [kind |-> "names", app |-> K_digit, assets |-> K_assets]
CacheNameResponses == {NoNames, ErrorNames, Names1, Names2, Names3}

\* what caches.keys() resolves to: the live cache keys, in order
KeyLists == {<<>>,
             <<K_app1, K_assets>>,
             <<K_app1, K_assets, K_app2>>,
             <<K_app2, K_app1, K_app3>>,
             <<K_other, K_assets>>}

\* s.indexOf(p): zero-based position of the first occurrence, -1 if none
IndexOf(s, p) ==
    LET occ == Occurrences(s, p) IN
    IF occ = {} THEN -1 ELSE (CHOOSE i \in occ : \A j \in occ : i <= j) - 1

\* s.replace(p, '') with a string pattern: the first occurrence is removed
RemoveFirst(s, p) ==
    LET at == IndexOf(s, p) IN
    IF at < 0 THEN s ELSE SubSeq(s, 1, at) \o SubSeq(s, at + Len(p) + 1, Len(s))

\* cacheNames.app.replace(/^([^\d]+).+/, '$1'): group 1 is the longest run of leading
\* non-digits that still leaves one character for .+ ; without a match the string is
\* returned unchanged
CachePrefix(app) ==
    LET lead == {n \in 0..Len(app) : \A i \in 1..n : app[i] \notin Digits}
        run == CHOOSE n \in lead : \A m \in lead : m <= n
        g == IF run = Len(app) THEN run - 1 ELSE run
    IN  IF g >= 1 THEN SubSeq(app, 1, g) ELSE app

\* the characters app cache identifiers are made of
IdChars == {"k", "-", "1", "7"}

\* every app cache identifier of length 0..n
RECURSIVE Identifiers(_)
Identifiers(n) ==
    IF n = 0 THEN {<<>>}
    ELSE LET shorter == Identifiers(n - 1) IN
         shorter \cup {Append(s, c) : s \in {t \in shorter : Len(t) = n - 1}, c \in IdChars}

\* the driver of line 242 alone: no identifier has been handed over yet
PrefixIdle == appId = <<"none">> /\ cachePrefix = <<"unset">>

\* cacheNames.app arrives
PrefixInit(id) == appId = id /\ cachePrefix = <<"unset">>

\* line 242
DerivePrefix ==
    /\ appId # <<"none">>
    /\ cachePrefix = <<"unset">>
    /\ cachePrefix' = CachePrefix(appId)
    /\ UNCHANGED appId
    /\ UNCHANGED <<feedVars, downloadVars, updateVars, themeVars, sectionVars, returnVars>>

\* Qualifying without the prefix guard of line 246
QualifyingAnyPrefix(keyList, cacheNames) ==
    SelectSeq(keyList, LAMBDA key : ~(key = cacheNames.app \/ key = cacheNames.assets))

\* lines 244-246: the keys that pass both guards of the forEach body
Qualifying(keyList, cacheNames) ==
    SelectSeq(keyList, LAMBDA key :
        /\ ~(key = cacheNames.app \/ key = cacheNames.assets)
        /\ IndexOf(key, CachePrefix(cacheNames.app)) = 0)

\* KeysHandler that recomputes the flag like the banner's display
KeysHandlerResetsFlag(keyList, cacheNames, flag, message) ==
    LET q == Qualifying(keyList, cacheNames) IN
    [flag |-> q # <<>>,
     display |-> IF q # <<>> THEN "block" ELSE "none",
     message |-> IF q # <<>> THEN RemoveFirst(q[Len(q)], CachePrefix(cacheNames.app))
                 ELSE message]

\* lines 241-252: the handler of caches.keys(), as the values it leaves behind
KeysHandler(keyList, cacheNames, flag, message) ==
    LET q == Qualifying(keyList, cacheNames) IN
    [flag |-> flag \/ q # <<>>,
     display |-> IF q # <<>> THEN "block" ELSE "none",
     message |-> IF q # <<>> THEN RemoveFirst(q[Len(q)], CachePrefix(cacheNames.app))
                 ELSE message]

\* Proceeds without the flag test
ProceedsAlways(sw, flag) == sw

\* line 235: the guard of the whole function
Proceeds(sw, flag) == sw /\ ~flag

UpdateInit(sw) ==
    /\ swSupported = sw
    /\ pwaUpdateNeeded = FALSE
    /\ updateAlertDisplay = "none"
    \* line 258 runs when the module is loaded
    /\ updateHandlers = 1
    /\ persistentMessage = <<>>
    /\ paramsCacheNames = NoNames
    /\ checks = <<>>
    /\ flagRises = 0
    /\ lastKeyList = <<>>

\* the call itself: line 235 and the request of line 236
CheckUpdateStatus ==
    /\ Len(checks) < MaxChecks
    /\ checks' = Append(checks,
           [pc |-> IF Proceeds(swSupported, pwaUpdateNeeded) THEN "getCacheNames" ELSE "noop",
            cacheNames |-> NoNames, seen |-> 0, got |-> "nothing", enumerated |-> FALSE])
    /\ UNCHANGED <<swSupported, pwaUpdateNeeded, updateAlertDisplay, updateHandlers,
                   persistentMessage, paramsCacheNames, flagRises, lastKeyList>>
    /\ UNCHANGED <<feedVars, downloadVars, themeVars, prefixVars, sectionVars, returnVars>>

\* Usable without the test of the error marker
UsableUnlessNull(cacheNames) == cacheNames.kind # "null"

\* line 237: cacheNames && !cacheNames.error
Usable(cacheNames) == cacheNames.kind = "names"

\* the callback given to getCacheNames: lines 236-240
GetCacheNamesCallback(i, cacheNames) ==
    /\ i \in 1..Len(checks)
    /\ checks[i].pc = "getCacheNames"
    /\ IF Usable(cacheNames)
       THEN /\ paramsCacheNames' = cacheNames
            \* line 240: caches.keys() is called
            /\ checks' = [checks EXCEPT ![i].pc = "keys", ![i].cacheNames = cacheNames,
                                        ![i].got = cacheNames.kind, ![i].enumerated = TRUE]
       ELSE /\ checks' = [checks EXCEPT ![i].pc = "done", ![i].got = cacheNames.kind]
            /\ UNCHANGED paramsCacheNames
    /\ UNCHANGED <<swSupported, pwaUpdateNeeded, updateAlertDisplay, updateHandlers,
                   persistentMessage, flagRises, lastKeyList>>
    /\ UNCHANGED <<feedVars, downloadVars, themeVars, prefixVars, sectionVars, returnVars>>

\* the handler of caches.keys(): lines 240-253
KeysResolved(i, keyList) ==
    /\ i \in 1..Len(checks)
    /\ checks[i].pc = "keys"
    /\ LET r == KeysHandler(keyList, checks[i].cacheNames, pwaUpdateNeeded, persistentMessage)
       IN  /\ pwaUpdateNeeded' = r.flag
           /\ updateAlertDisplay' = r.display
           /\ persistentMessage' = r.message
           /\ flagRises' = IF ~pwaUpdateNeeded /\ r.flag THEN flagRises + 1 ELSE flagRises
    \* the closure is finished: its cacheNames is dropped; seen keeps how many keys of
    \* this list passed the guards (history)
    /\ checks' = [checks EXCEPT ![i].pc = "done",
                                ![i].cacheNames = NoNames,
                                ![i].seen = Len(Qualifying(keyList, checks[i].cacheNames))]
    /\ lastKeyList' = keyList
    /\ UNCHANGED <<swSupported, updateHandlers, paramsCacheNames>>
    /\ UNCHANGED <<feedVars, downloadVars, themeVars, prefixVars, sectionVars, returnVars>>

\* a click on the banner's button[data-hide]: lines 258-260
DismissUpdateAlert ==
    /\ updateHandlers >= 1
    /\ updateAlertDisplay = "block"
    /\ updateAlertDisplay' = "none"
    /\ UNCHANGED <<swSupported, pwaUpdateNeeded, updateHandlers, persistentMessage,
                   paramsCacheNames, checks, flagRises, lastKeyList>>
    /\ UNCHANGED <<feedVars, downloadVars, themeVars, prefixVars, sectionVars, returnVars>>

NextDownload ==
    \/ \E t \in Titles, d \in Directives, ct \in ContentTypes, clickThrows, ms \in BOOLEAN :
           DisplayFileDownloadAlert(t, d, ct, clickThrows, ms)
    \/ DismissDownloadAlert

NextUpdate ==
    \/ CheckUpdateStatus
    \/ \E i \in 1..MaxChecks, n \in CacheNameResponses : GetCacheNamesCallback(i, n)
    \/ \E i \in 1..MaxChecks, k \in KeyLists : KeysResolved(i, k)
    \/ DismissUpdateAlert

\* both components together, with MaxAlertChecks calls of checkUpdateStatus
AlertChecksLeft == Len(checks) < MaxAlertChecks

NextAlerts ==
    \/ \E t \in Titles, d \in Directives, ct \in ContentTypes, clickThrows, ms \in BOOLEAN :
           DisplayFileDownloadAlert(t, d, ct, clickThrows, ms)
    \/ DismissDownloadAlert
    \/ AlertChecksLeft /\ CheckUpdateStatus
    \/ \E i \in 1..MaxChecks, n \in CacheNameResponses : GetCacheNamesCallback(i, n)
    \/ \E i \in 1..MaxChecks, k \in KeyLists : KeysResolved(i, k)
    \/ DismissUpdateAlert

(***************************************************************************)
(* removeAnimationClasses() and applyAnimationToSection(section)           *)
(***************************************************************************)
Elements == {"about", "configuration", "articleContent"}
Sections == {"home", "config", "about"}

\* the view as the two functions read and write it
View(shown, classes, pending) == [shown |-> shown, classes |-> classes, timers |-> pending]

\* lines 314-318
RemoveAnimationClasses(classes) ==
    [e \in Elements |->
        CASE e = "about" -> classes[e] \ {"slideIn_L", "slideOut_R"}
          [] e = "configuration" ->
                 classes[e] \ {"slideIn_L", "slideIn_R", "slideOut_L", "slideOut_R"}
          [] e = "articleContent" -> classes[e] \ {"slideIn_R", "slideOut_L"}]

\* $(el).addClass(c)
AddClass(classes, e, c) == [classes EXCEPT ![e] = @ \cup {c}]

\* setTimeout(function () { $(el).hide() or .show() }, 300)
Timer(e, op) == [el |-> e, op |-> op]

\* lines 327-345, section == 'home'
AnimateHome(v) ==
    LET c1 == IF v.shown["configuration"]
              THEN AddClass(v.classes, "configuration", "slideOut_R") ELSE v.classes
        t1 == IF v.shown["configuration"]
              THEN Append(v.timers, Timer("configuration", "hide")) ELSE v.timers
        c2 == IF v.shown["about"] THEN AddClass(c1, "about", "slideOut_R") ELSE c1
        t2 == IF v.shown["about"] THEN Append(t1, Timer("about", "hide")) ELSE t1
    IN  View(v.shown, AddClass(c2, "articleContent", "slideIn_R"),
             Append(t2, Timer("articleContent", "show")))

\* lines 346-363, section == 'config'
AnimateConfig(v) ==
    IF v.shown["about"]
    THEN View(v.shown,
              AddClass(AddClass(v.classes, "about", "slideOut_R"), "configuration", "slideIn_R"),
              v.timers \o <<Timer("about", "hide"), Timer("configuration", "show")>>)
    ELSE IF v.shown["articleContent"]
    THEN View(v.shown,
              AddClass(AddClass(v.classes, "articleContent", "slideOut_L"),
                       "configuration", "slideIn_L"),
              v.timers \o <<Timer("articleContent", "hide"), Timer("configuration", "show")>>)
    ELSE View(v.shown, v.classes, Append(v.timers, Timer("configuration", "show")))

\* lines 364-378, section == 'about'
AnimateAbout(v) ==
    LET c1 == IF v.shown["configuration"]
              THEN AddClass(v.classes, "configuration", "slideOut_L") ELSE v.classes
        t1 == IF v.shown["configuration"]
              THEN Append(v.timers, Timer("configuration", "hide")) ELSE v.timers
        c2 == IF v.shown["articleContent"]
              THEN AddClass(c1, "articleContent", "slideOut_L") ELSE c1
        t2 == IF v.shown["articleContent"]
              THEN Append(t1, Timer("articleContent", "hide")) ELSE t1
    IN  View(v.shown, AddClass(c2, "about", "slideIn_L"), Append(t2, Timer("about", "show")))

\* lines 326-379
Animate(v, section) ==
    CASE section = "home" -> AnimateHome(v)
      [] section = "config" -> AnimateConfig(v)
      [] section = "about" -> AnimateAbout(v)

\* the page with one section in view and no transition under way
SectionInit(e) ==
    /\ sectionShown = [x \in Elements |-> x = e]
    /\ sectionClasses = [x \in Elements |-> {}]
    /\ timers = <<>>
    /\ sectionLog = [last |-> "none", count |-> 0]

SectionIdle == SectionInit("articleContent")

ApplyAnimationToSection(section) ==
    /\ sectionLog.count < MaxSwitches
    /\ LET v == Animate(View(sectionShown, sectionClasses, timers), section) IN
       /\ sectionClasses' = v.classes
       /\ timers' = v.timers
    /\ sectionLog' = [last |-> section, count |-> sectionLog.count + 1]
    /\ UNCHANGED sectionShown
    /\ UNCHANGED <<feedVars, downloadVars, updateVars, themeVars, prefixVars, returnVars>>

\* 300 ms after its setTimeout, the oldest pending callback runs: timers of one delay
\* fire in the order they were set
FireTimer ==
    /\ timers # <<>>
    /\ sectionShown' = [sectionShown EXCEPT ![Head(timers).el] = (Head(timers).op = "show")]
    /\ timers' = Tail(timers)
    /\ UNCHANGED <<sectionClasses, sectionLog>>
    /\ UNCHANGED <<feedVars, downloadVars, updateVars, themeVars, prefixVars, returnVars>>

NextSections ==
    \/ \E section \in Sections : ApplyAnimationToSection(section)
    \/ FireTimer

(***************************************************************************)
(* applyAppTheme(theme) and showReturnLink()                               *)
(***************************************************************************)
S_light == <<"l", "i", "g", "h", "t">>
S_dark == <<"d", "a", "r", "k">>
S_dark_invert == <<"d", "a", "r", "k", "_", "i", "n", "v", "e", "r", "t">>
S_dark_mwInvert == <<"d", "a", "r", "k", "_", "m", "w", "I", "n", "v", "e", "r", "t">>
S_light_invert == <<"l", "i", "g", "h", "t", "_", "i", "n", "v", "e", "r", "t">>
\* the themes listed at line 386, and one more built by the rule of lines 384-385
Selectors == {S_light, S_dark, S_dark_invert, S_dark_mwInvert, S_light_invert}

\* the '<theme>-help' panels of the page (lines 416-420 look them up by id)
HelpThemes == {S_dark_invert, S_dark_mwInvert}

C_light == <<"_", "l", "i", "g", "h", "t">>
C_invert == <<"_", "i", "n", "v", "e", "r", "t">>
C_mwInvert == <<"_", "m", "w", "I", "n", "v", "e", "r", "t">>

\* position of the first underscore of s, Len(s) + 1 if it has none
FirstUnderscore(s) ==
    LET us == {i \in 1..Len(s) : s[i] = "_"} IN
    IF us = {} THEN Len(s) + 1 ELSE CHOOSE i \in us : \A j \in us : i <= j

\* theme.replace(/_.*$/, '')
AppThemeOf(theme) == SubSeq(theme, 1, FirstUnderscore(theme) - 1)

\* theme.replace(/^[^_]*/, '')
ContentThemeOf(theme) == SubSeq(theme, FirstUnderscore(theme), Len(theme))

\* contentTheme || '_light' (lines 407 and 412)
FooterClass(contentTheme) == IF contentTheme = <<>> THEN C_light ELSE contentTheme

\* the href of line 442 without its location prefix, and the pattern of line 431
SheetHref(contentTheme) ==
    <<"/", "c", "s", "s", "/", "k", "i", "w", "i", "x", "J", "S">> \o contentTheme
        \o <<".", "c", "s", "s">>
SheetPattern(contentTheme) ==
    <<"k", "i", "w", "i", "x", "J", "S">> \o contentTheme \o <<".", "c", "s", "s">>

\* ~href.search(pattern): the string pattern is compiled as a regular expression, in
\* which '.' matches any character and the other characters used here themselves
SearchMatches(href, pattern) ==
    \E i \in 1..(Len(href) - Len(pattern) + 1) :
        \A j \in 1..Len(pattern) : pattern[j] = "." \/ pattern[j] = href[i + j - 1]

\* HtmlAfter without the removal of line 405
HtmlKeepsOld(classes, oldAppTheme, appTheme) ==
    IF appTheme # <<>> THEN classes \cup {appTheme} ELSE classes

\* lines 405 and 409: the classes of <html> after the call
HtmlAfter(classes, oldAppTheme, appTheme) ==
    LET removed == IF oldAppTheme # <<>> THEN classes \ {oldAppTheme} ELSE classes IN
    IF appTheme # <<>> THEN removed \cup {appTheme} ELSE removed

\* ContentAfter without the removal of lines 423-429
ContentKeepsOld(frame, links, doc, oldContentTheme, contentTheme) ==
    LET hasSheet == doc /\ links # <<>>
        inject == /\ contentTheme # <<>>
                  /\ (~hasSheet \/ ~SearchMatches(links[1], SheetPattern(contentTheme)))
    IN  [frame |-> IF inject THEN frame \cup {contentTheme} ELSE frame,
         links |-> IF inject /\ doc THEN Append(links, SheetHref(contentTheme)) ELSE links,
         inject |-> inject]

\* ContentAfter that takes any attached sheet for the requested one at line 431
ContentTrustsAnySheet(frame, links, doc, oldContentTheme, contentTheme) ==
    LET hasSheet == doc /\ links # <<>>
        removeOld == oldContentTheme # <<>> /\ oldContentTheme # contentTheme
        frame1 == IF removeOld THEN frame \ {oldContentTheme} ELSE frame
        links1 == IF removeOld /\ hasSheet THEN Tail(links) ELSE links
        inject == contentTheme # <<>> /\ ~hasSheet
    IN  [frame |-> IF inject THEN frame1 \cup {contentTheme} ELSE frame1,
         links |-> IF inject /\ doc THEN Append(links1, SheetHref(contentTheme)) ELSE links1,
         inject |-> inject]

\* ContentAfter without the 'already attached' test of line 431
ContentAlwaysInjects(frame, links, doc, oldContentTheme, contentTheme) ==
    LET hasSheet == doc /\ links # <<>>
        removeOld == oldContentTheme # <<>> /\ oldContentTheme # contentTheme
        frame1 == IF removeOld THEN frame \ {oldContentTheme} ELSE frame
        links1 == IF removeOld /\ hasSheet THEN Tail(links) ELSE links
        inject == contentTheme # <<>>
    IN  [frame |-> IF inject THEN frame1 \cup {contentTheme} ELSE frame1,
         links |-> IF inject /\ doc THEN Append(links1, SheetHref(contentTheme)) ELSE links1,
         \* the branch of lines 431-445 is entered
         inject |-> inject]

\* lines 423-445: the frame's classes and the document's links after the call.
\* links holds the href of every link#kiwixJSTheme, in document order; getElementById
\* yields the first of them.
ContentAfter(frame, links, doc, oldContentTheme, contentTheme) ==
    LET hasSheet == doc /\ links # <<>>
        removeOld == oldContentTheme # <<>> /\ oldContentTheme # contentTheme
        frame1 == IF removeOld THEN frame \ {oldContentTheme} ELSE frame
        links1 == IF removeOld /\ hasSheet THEN Tail(links) ELSE links
        \* kiwixJSSheet still refers to the element found at line 399, detached or not
        inject == /\ contentTheme # <<>>
                  /\ (~hasSheet \/ ~SearchMatches(links[1], SheetPattern(contentTheme)))
    IN  [frame |-> IF inject THEN frame1 \cup {contentTheme} ELSE frame1,
         links |-> IF inject /\ doc THEN Append(links1, SheetHref(contentTheme)) ELSE links1,
         \* the branch of lines 431-445 is entered
         inject |-> inject]

\* NullDocUses with the link created outside 'if (doc)'
NullDocUsesUnguarded(doc, inject, config) ==
    LET reads == [l \in {399, 438, 449} |->
                     CASE l = 399 -> doc
                       [] l = 438 -> inject
                       [] l = 449 -> config /\ doc]
    IN  {l \in {399, 438, 449} : reads[l] /\ ~doc}

\* the lines at which a property of doc is read while doc is null, each of which would
\* throw a TypeError: line 399 reads doc.getElementById after 'doc ?', lines 438-443
\* use doc inside 'if (doc)' within the branch of line 431, and line 449 reads
\* doc.title after 'doc &&'
NullDocUses(doc, inject, config) ==
    LET reads == [l \in {399, 438, 449} |->
                     CASE l = 399 -> doc
                       [] l = 438 -> inject /\ doc
                       [] l = 449 -> config /\ doc]
    IN  {l \in {399, 438, 449} : reads[l] /\ ~doc}

\* lines 416-420
HelpAfter(help, oldTheme, theme) ==
    LET hidden == [h \in HelpThemes |-> IF h = oldTheme THEN "none" ELSE help[h]] IN
    [h \in HelpThemes |-> IF h = theme THEN "block" ELSE hidden[h]]

\* the controls the click handler of #viewArticle writes, while the configuration
\* section is open
ReturnInit ==
    /\ homeNavActive = FALSE
    /\ navigationButtonsDisplay = "none"
    /\ formArticleSearchDisplay = "none"
    /\ returnRuns = 0

\* no theme applied yet; config: the configuration section is open; article: the
\* frame holds a real document, not the placeholder
ThemeStart(config, article) ==
    /\ htmlClasses = {}
    /\ footerClasses = {}
    /\ datasetTheme = <<>>
    /\ iframeClasses = {}
    /\ docAccessible = TRUE
    /\ docLinks = <<>>
    /\ docIsArticle = article
    /\ configActive = config
    /\ helpDisplay = [h \in HelpThemes |-> "none"]
    /\ viewArticleDisplay = "none"
    /\ viewArticleHandlers = 0
    /\ themeLog = [calls |-> <<>>, inRow |-> 0, threw |-> FALSE, access |-> <<>>]

ThemeInit == ThemeStart(FALSE, FALSE)

ApplyAppTheme(theme) ==
    /\ Len(themeLog.calls) < MaxThemeCalls
    /\ LET oldTheme == datasetTheme
           appTheme == AppThemeOf(theme)
           contentTheme == ContentThemeOf(theme)
           oldAppTheme == AppThemeOf(oldTheme)
           oldContentTheme == ContentThemeOf(oldTheme)
           content == ContentAfter(iframeClasses, docLinks, docAccessible,
                                   oldContentTheme, contentTheme)
           showReturnLink == configActive /\ docAccessible /\ docIsArticle
       IN  /\ htmlClasses' = HtmlAfter(htmlClasses, oldAppTheme, appTheme)
           /\ footerClasses' = (footerClasses \ {FooterClass(oldContentTheme)})
                                   \cup {FooterClass(contentTheme)}
           /\ datasetTheme' = theme
           /\ helpDisplay' = HelpAfter(helpDisplay, oldTheme, theme)
           /\ iframeClasses' = content.frame
           /\ docLinks' = content.links
           \* showReturnLink(), lines 455-473
           /\ viewArticleDisplay' = IF showReturnLink THEN "block" ELSE viewArticleDisplay
           /\ viewArticleHandlers' = IF showReturnLink THEN viewArticleHandlers + 1
                                     ELSE viewArticleHandlers
    /\ themeLog' = [calls |-> Append(themeLog.calls, theme), inRow |-> themeLog.inRow + 1,
                    threw |-> NullDocUses(docAccessible,
                                          ContentAfter(iframeClasses, docLinks, docAccessible,
                                                       ContentThemeOf(datasetTheme),
                                                       ContentThemeOf(theme)).inject,
                                          configActive) # {},
                    access |-> Append(themeLog.access, docAccessible)]
    /\ UNCHANGED <<docAccessible, docIsArticle, configActive>>
    /\ UNCHANGED <<feedVars, downloadVars, updateVars, prefixVars, sectionVars, returnVars>>

\* The frame loads another document. contentDocument is null while the frame's
\* document is cross-origin or not loaded; a document keeps its origin for as long
\* as it lives, so access changes only with the document, and a document that has
\* just been loaded holds no injected link.
LoadDocument(accessible, isArticle) ==
    /\ <<docAccessible, docIsArticle, docLinks>> # <<accessible, isArticle, <<>> >>
    /\ docAccessible' = accessible
    /\ docIsArticle' = isArticle
    /\ docLinks' = <<>>
    /\ themeLog' = [themeLog EXCEPT !.inRow = 0]
    /\ UNCHANGED <<htmlClasses, footerClasses, datasetTheme, iframeClasses, configActive,
                   helpDisplay, viewArticleDisplay, viewArticleHandlers>>
    /\ UNCHANGED <<feedVars, downloadVars, updateVars, prefixVars, sectionVars, returnVars>>

\* The user opens or leaves the configuration section: the host toggles the
\* 'active' class that line 448 reads.
SetConfigNav(active) ==
    /\ configActive # active
    /\ configActive' = active
    /\ themeLog' = [themeLog EXCEPT !.inRow = 0]
    /\ UNCHANGED <<htmlClasses, footerClasses, datasetTheme, iframeClasses, docAccessible,
                   docLinks, docIsArticle, helpDisplay, viewArticleDisplay,
                   viewArticleHandlers>>
    /\ UNCHANGED <<feedVars, downloadVars, updateVars, prefixVars, sectionVars, returnVars>>

\* lines 462-468, run once: the view after removeAnimationClasses() and the switch to
\* the article, animated or not (params.showUIAnimations)
ReturnTransition(v, showUIAnimations) ==
    LET cleared == View(v.shown, RemoveAnimationClasses(v.classes), v.timers) IN
    IF showUIAnimations THEN Animate(cleared, "home")
    ELSE View([cleared.shown EXCEPT !["configuration"] = FALSE, !["articleContent"] = TRUE],
              cleared.classes, cleared.timers)

\* one click runs every listener that line 458 registered, one after the other
RECURSIVE RunReturnHandlers(_, _, _)
RunReturnHandlers(v, n, showUIAnimations) ==
    IF n = 0 THEN v
    ELSE RunReturnHandlers(ReturnTransition(v, showUIAnimations), n - 1, showUIAnimations)

\* the user clicks #viewArticle: lines 458-471, once per registered listener
ClickViewArticle(showUIAnimations) ==
    /\ viewArticleHandlers >= 1
    /\ viewArticleDisplay = "block"
    /\ LET v == RunReturnHandlers(View(sectionShown, sectionClasses, timers),
                                  viewArticleHandlers, showUIAnimations)
       IN  /\ sectionShown' = v.shown
           /\ sectionClasses' = v.classes
           /\ timers' = v.timers
    /\ sectionLog' = IF showUIAnimations
                     THEN [last |-> "home", count |-> sectionLog.count + viewArticleHandlers]
                     ELSE sectionLog
    /\ configActive' = FALSE
    /\ homeNavActive' = TRUE
    /\ navigationButtonsDisplay' = "inline-flex"
    /\ formArticleSearchDisplay' = "block"
    /\ viewArticleDisplay' = "none"
    /\ returnRuns' = viewArticleHandlers
    /\ themeLog' = [themeLog EXCEPT !.inRow = 0]
    /\ UNCHANGED <<htmlClasses, footerClasses, datasetTheme, iframeClasses, docAccessible,
                   docLinks, docIsArticle, helpDisplay, viewArticleHandlers>>
    /\ UNCHANGED <<feedVars, downloadVars, updateVars, prefixVars>>

\* applyAppTheme while the configuration section is open, and the way back
NextReturn ==
    \/ \E t \in Selectors : ApplyAppTheme(t)
    \/ \E a \in BOOLEAN : ClickViewArticle(a)
    \/ FireTimer

NextTheme ==
    \/ \E t \in Selectors : ApplyAppTheme(t)
    \/ \E a, art \in BOOLEAN : LoadDocument(a, art)
    \/ \E b \in BOOLEAN : SetConfigNav(b)

(***************************************************************************)
(* Specifications: one per component, and the whole module.                *)
(***************************************************************************)
Init ==
    /\ \E wm \in BOOLEAN : FeedInit(wm)
    /\ DownloadInit
    /\ \E sw \in BOOLEAN : UpdateInit(sw)
    /\ ThemeInit
    /\ PrefixIdle
    /\ SectionIdle
    /\ ReturnInit

\* the components a specification leaves in their first state
RestInit == PrefixIdle /\ SectionIdle /\ ReturnInit

InitFeed ==
    (\E wm \in BOOLEAN : FeedInit(wm)) /\ DownloadInit /\ UpdateInit(TRUE) /\ ThemeInit
        /\ RestInit

InitAlerts ==
    FeedInit(FALSE) /\ DownloadInit /\ (\E sw \in BOOLEAN : UpdateInit(sw)) /\ ThemeInit
        /\ RestInit

InitDownload == FeedInit(FALSE) /\ DownloadInit /\ UpdateInit(TRUE) /\ ThemeInit /\ RestInit

InitTheme == FeedInit(FALSE) /\ DownloadInit /\ UpdateInit(TRUE) /\ ThemeInit /\ RestInit

InitPrefix ==
    /\ FeedInit(FALSE) /\ DownloadInit /\ UpdateInit(TRUE) /\ ThemeInit
    /\ \E id \in Identifiers(MaxIdLen) : PrefixInit(id)
    /\ SectionIdle /\ ReturnInit

Next ==
    \/ NextFeed \/ NextDownload \/ NextUpdate \/ NextTheme
    \/ NextSections
    \/ \E a \in BOOLEAN : ClickViewArticle(a)

Spec == Init /\ [][Next]_vars

SpecFeed == InitFeed /\ [][NextFeed]_vars

SpecDownload == InitDownload /\ [][NextDownload]_vars

SpecUpdate == InitAlerts /\ [][NextUpdate]_vars

SpecAlerts == InitAlerts /\ [][NextAlerts]_vars

SpecTheme == InitTheme /\ [][NextTheme]_vars

SpecPrefix == InitPrefix /\ [][DerivePrefix]_vars

InitSections ==
    /\ FeedInit(FALSE) /\ DownloadInit /\ UpdateInit(TRUE) /\ ThemeInit /\ PrefixIdle
    /\ \E e \in Elements : SectionInit(e)
    /\ ReturnInit

SpecSections == InitSections /\ [][NextSections]_vars

\* the configuration section is open over a real document
InitReturn ==
    /\ FeedInit(FALSE) /\ DownloadInit /\ UpdateInit(TRUE) /\ PrefixIdle
    /\ ThemeStart(TRUE, TRUE)
    /\ SectionInit("configuration")
    /\ ReturnInit

SpecReturn == InitReturn /\ [][NextReturn]_vars

(***************************************************************************)
(* Properties of feedNodeWithBlob.                                         *)
(***************************************************************************)
FeedCall(i) == feedCalls[i]

\* C1: for every call of feedNodeWithBlob the callback is invoked at most once and
\* the attribute is set at most once, whichever path is taken and whether or not the
\* decode, the callback or setAttribute fail.
C1_CallbackAndAttributeAtMostOnce ==
    \A i \in 1..Len(feedCalls) :
        /\ Len(Callbacks(FeedCall(i).log)) <= 1
        /\ Len(AttrSets(FeedCall(i).log)) <= 1

\* C2: when the MIME type does not match the WebP pattern, or no decode engine is
\* initialised, the call completes synchronously: the callback (if given) is the
\* first thing invoked and receives the object URL; the attribute is set after it, to
\* that same URL; and when the call returns the attribute holds that non-empty URL.
C2_BlobPathSynchronous ==
    \A i \in 1..Len(feedCalls) :
        LET c == FeedCall(i) IN
        (~webpMachine \/ ~IsWebP(c.mime)) =>
            /\ c.pc \in {"returned", "threw"}
            /\ c.ref = ObjectURL(i)
            /\ c.hasCallback =>
                   /\ c.log[1] = Ev("callback", ObjectURL(i))
                   /\ Len(Callbacks(c.log)) = 1
            /\ c.pc = "returned" =>
                   /\ AttrSets(c.log) = <<Ev("setAttribute", ObjectURL(i))>>
                   /\ c.log[Len(c.log)] = Ev("return", NoArg)
                   /\ c.attrAtReturn = ObjectURL(i)
                   /\ Len(c.attrAtReturn) > 0

C2_Witness ==
    \E i \in 1..Len(feedCalls) :
        /\ webpMachine
        /\ FeedCall(i).mime = M_web
        /\ FeedCall(i).hasCallback
        /\ FeedCall(i).pc = "returned"
        /\ nodeAttr = ObjectURL(i)

\* C3: on the decode path a failed decode never sets the attribute and raises
\* nothing in the caller; once the rejection has been handled the callback (if
\* given) has been invoked exactly once, with no argument.
C3_DecodeFailure ==
    \A i \in 1..Len(feedCalls) :
        LET c == FeedCall(i) IN
        (c.path = "webp" /\ c.decodeFailed) =>
            /\ AttrSets(c.log) = <<>>
            /\ nodeAttr # DataURI(i)
            /\ Throws(c.log) = <<>>
            /\ c.log[2] = Ev("return", NoArg)
            /\ Len(Callbacks(c.log)) <= 1
            /\ c.pc = "done" =>
                   Callbacks(c.log) = IF c.hasCallback THEN <<Ev("callback", NoArg)>>
                                      ELSE <<>>

C3_Witness ==
    \E i \in 1..Len(feedCalls) :
        /\ FeedCall(i).path = "webp"
        /\ FeedCall(i).decodeFailed
        /\ FeedCall(i).hasCallback
        /\ FeedCall(i).pc = "done"

(***************************************************************************)
(* Properties of applyAppTheme. What a selector stands for is written out  *)
(* here, not computed with the operators of the model.                     *)
(***************************************************************************)
\* the appTheme class and the footer class each selector stands for
ShellClass(s) ==
    CASE s = S_light -> S_light
      [] s = S_light_invert -> S_light
      [] s = S_dark -> S_dark
      [] s = S_dark_invert -> S_dark
      [] s = S_dark_mwInvert -> S_dark

FooterClassFor(s) ==
    CASE s = S_light -> C_light
      [] s = S_dark -> C_light
      [] s = S_light_invert -> C_invert
      [] s = S_dark_invert -> C_invert
      [] s = S_dark_mwInvert -> C_mwInvert

\* the content-theme class each selector puts on the frame, <<>> if it has none
FrameClassFor(s) == IF s \in {S_light, S_dark} THEN <<>> ELSE FooterClassFor(s)

\* the stylesheet each content theme is served from
StylesheetFor(c) ==
    CASE c = C_invert ->
             <<"/", "c", "s", "s", "/", "k", "i", "w", "i", "x", "J", "S", "_", "i", "n", "v",
               "e", "r", "t", ".", "c", "s", "s">>
      [] c = C_mwInvert ->
             <<"/", "c", "s", "s", "/", "k", "i", "w", "i", "x", "J", "S", "_", "m", "w", "I",
               "n", "v", "e", "r", "t", ".", "c", "s", "s">>

ThemeCalls == themeLog.calls
NumThemeCalls == Len(themeLog.calls)
LinkSet == {docLinks[k] : k \in 1..Len(docLinks)}

\* C4: after applyAppTheme(s1) and then applyAppTheme(s2), <html> carries the
\* appTheme class of s2 and not that of s1 when they differ, <footer> carries the
\* content class of s2 ('_light' when s2 has none) and not that of s1 when they
\* differ, and the theme marker is s2; 'dark_invert' then 'light' leaves 'light'
\* without 'dark' on <html> and '_light' without '_invert' on <footer>.
C4_SecondThemeReplacesFirst ==
    NumThemeCalls >= 2 =>
        LET s1 == ThemeCalls[NumThemeCalls - 1]
            s2 == ThemeCalls[NumThemeCalls]
        IN  /\ ShellClass(s2) \in htmlClasses
            /\ ShellClass(s1) # ShellClass(s2) => ShellClass(s1) \notin htmlClasses
            /\ FooterClassFor(s2) \in footerClasses
            /\ FooterClassFor(s1) # FooterClassFor(s2) => FooterClassFor(s1) \notin footerClasses
            /\ datasetTheme = s2
            /\ (s1 = S_dark_invert /\ s2 = S_light) =>
                   /\ S_light \in htmlClasses /\ S_dark \notin htmlClasses
                   /\ C_light \in footerClasses /\ C_invert \notin footerClasses

C4_Witness ==
    /\ NumThemeCalls >= 2
    /\ ThemeCalls[NumThemeCalls - 1] = S_dark_invert
    /\ ThemeCalls[NumThemeCalls] = S_light
    /\ htmlClasses = {S_light}
    /\ footerClasses = {C_light}

\* C5: a call of applyAppTheme that directly follows a call with the same selector
\* changes nothing: the classes of <html>, <footer> and the frame, the help panels
\* and the injected stylesheet links stay as the first call left them.
C5_SameSelectorIdempotent ==
    [][(/\ NumThemeCalls >= 1
        /\ themeLog.inRow >= 1
        /\ Len(themeLog'.calls) = NumThemeCalls + 1
        /\ themeLog'.calls[NumThemeCalls + 1] = ThemeCalls[NumThemeCalls])
       => (/\ htmlClasses' = htmlClasses
           /\ footerClasses' = footerClasses
           /\ iframeClasses' = iframeClasses
           /\ helpDisplay' = helpDisplay
           /\ docLinks' = docLinks
           /\ Len(docLinks') <= 1)]_vars

C5_Witness ==
    /\ NumThemeCalls >= 2
    /\ themeLog.inRow >= 2
    /\ ThemeCalls[NumThemeCalls - 1] = S_dark_invert
    /\ ThemeCalls[NumThemeCalls] = S_dark_invert
    /\ docLinks = <<StylesheetFor(C_invert)>>
    /\ iframeClasses = {C_invert}
    /\ helpDisplay[S_dark_invert] = "block"

\* C10: once a call of applyAppTheme has completed, nothing of an earlier, different
\* content theme is left: the frame does not carry its class and the embedded
\* document holds no stylesheet link for it, whether the document was accessible or
\* not at each of the calls.
C10_NoEarlierContentTheme ==
    \A k \in 1..(NumThemeCalls - 1) :
        LET earlier == FrameClassFor(ThemeCalls[k])
            current == FrameClassFor(ThemeCalls[NumThemeCalls])
        IN  (earlier # <<>> /\ earlier # current) =>
                /\ earlier \notin iframeClasses
                /\ StylesheetFor(earlier) \notin LinkSet

C10_Witness ==
    /\ NumThemeCalls >= 3
    /\ themeLog.inRow = 2
    /\ ThemeCalls[NumThemeCalls - 2] = S_dark_mwInvert
    /\ ThemeCalls[NumThemeCalls - 1] = S_dark_invert
    /\ ThemeCalls[NumThemeCalls] = S_light
    /\ docAccessible
    /\ docLinks = <<>>
    /\ iframeClasses = {}

(***************************************************************************)
(* Properties of checkUpdateStatus and displayFileDownloadAlert.           *)
(***************************************************************************)
\* C6: over any sequence of checkUpdateStatus calls, overlapping or not, the
\* pending-update flag goes from false to true at most once and never returns to
\* false.
C6_FlagSetAtMostOnce ==
    /\ [](flagRises <= 1)
    /\ [][pwaUpdateNeeded => pwaUpdateNeeded']_vars

C6_Witness ==
    /\ pwaUpdateNeeded
    /\ \E i, j \in 1..Len(checks) :
           /\ i < j
           /\ checks[i].pc = "done" /\ checks[i].seen >= 1
           /\ checks[j].pc = "done" /\ checks[j].seen >= 2

\* C7: a call of checkUpdateStatus made while the flag is already true, or without
\* service-worker support, requests nothing and changes nothing: no cache names are
\* requested then or later for it, no cache keys enumerated, and the banner, the
\* message, the stored cache names and the flag stay as they are.
C7_NoOpWhenFlagged ==
    /\ [][(Len(checks') = Len(checks) + 1 /\ (pwaUpdateNeeded \/ ~swSupported))
          => (/\ checks'[Len(checks')].pc = "noop"
              /\ updateAlertDisplay' = updateAlertDisplay
              /\ persistentMessage' = persistentMessage
              /\ paramsCacheNames' = paramsCacheNames
              /\ pwaUpdateNeeded' = pwaUpdateNeeded)]_vars
    /\ [][\A i \in 1..Len(checks) : checks[i].pc = "noop" => checks'[i] = checks[i]]_vars

C7_Witness ==
    /\ swSupported
    /\ pwaUpdateNeeded
    /\ \E i \in 1..Len(checks) : checks[i].pc = "noop"

\* the file name the alert offers for each title (download = true) and for each
\* explicit name
OfferedName(title, directive) ==
    CASE directive.isTrue /\ title = T_docs ->
             <<"M", "y", " ", "F", "i", "l", "e", ".", "t", "x", "t">>
      [] directive.isTrue /\ title = T_plain -> <<"a", "_", "b", "_">>
      [] directive.isTrue /\ title = T_dir -> <<"d", "_", "e", "_">>
      [] directive.isTrue /\ title = T_deep -> <<"x", "_", "_", "y">>
      [] directive.isTrue /\ title = T_file -> <<"f", ".", "c">>
      [] ~directive.isTrue /\ directive.name = D_name -> <<"r", "_", "s", "_", ".", "c">>
      [] ~directive.isTrue /\ directive.name = D_path -> <<"p", "_", "q", " ", "_">>

\* C8 as stated: with download = true the file name is the trailing path segment of
\* the title with every unsafe character, the space among them, replaced by '_', so
\* that '/docs/My File.txt' gives 'My_File.txt'; the banner is revealed.
C8_SpaceReplaced ==
    (downloadCalls >= 1 /\ download.directive.isTrue /\ download.title = T_docs) =>
        download.filename = <<"M", "y", "_", "F", "i", "l", "e", ".", "t", "x", "t">>

\* C8, amended: every call reveals the banner and offers as file name the part of
\* the title after its last '/' (the whole title when it has no '/' or ends with
\* one) if download is true, otherwise the given name, with each of / \ : * ? " < > |
\* replaced by '_' and every other character, the space included, kept:
\* '/docs/My File.txt' gives 'My File.txt'.
C8_FilenameSanitised ==
    [][downloadCalls' = downloadCalls + 1
       => (/\ download'.filename = OfferedName(download'.title, download'.directive)
           /\ downloadAlertDisplay' = "block")]_vars

C8_Witness ==
    /\ downloadCalls >= 1
    /\ download.directive.isTrue
    /\ download.title = T_docs
    /\ download.filename = <<"M", "y", " ", "F", "i", "l", "e", ".", "t", "x", "t">>
    /\ downloadAlertDisplay = "block"

\* C9: however often displayFileDownloadAlert and checkUpdateStatus are called, the
\* dismiss button of the update banner has exactly one click handler, and that of
\* the download alert never more than one: exactly one once the alert was displayed.
C9_DismissWiredOnce ==
    /\ updateHandlers = 1
    /\ downloadHandlers <= 1
    /\ downloadCalls >= 1 => downloadHandlers = 1

C9_Witness ==
    /\ downloadCalls >= 2
    /\ \E i \in 1..Len(checks) : checks[i].pc = "done" /\ checks[i].seen >= 1
    /\ downloadHandlers = 1
    /\ updateHandlers = 1

(***************************************************************************)
(* Claims about checkUpdateStatus, continued.                              *)
(***************************************************************************)
\* the prefix line 242 derives from each app cache identifier of the model, written out
DerivedPrefixFor(app) ==
    CASE app = K_app1 -> <<"k", "w", "-">>
      [] app = K_plain -> <<"k">>
      [] app = K_digit -> <<"7", "k", "w">>

BeginsWith(key, p) == Len(key) >= Len(p) /\ SubSeq(key, 1, Len(p)) = p

\* a key of the list differs from both identifiers and begins with the derived prefix
SomeKeyInWaiting(keyList, names) ==
    \E j \in 1..Len(keyList) :
        /\ keyList[j] # names.app
        /\ keyList[j] # names.assets
        /\ BeginsWith(keyList[j], DerivedPrefixFor(names.app))

\* C11: when the handler of caches.keys() has run for a successful retrieval, the
\* pending-update flag is set and the banner shown if and only if some key of the list
\* differs from the app and the assets identifier and begins with the derived prefix;
\* without such a key the flag keeps its value.
C11_FlagIffKeyInWaiting ==
    [][\A i \in 1..Len(checks) :
          (checks[i].pc = "keys" /\ checks'[i].pc = "done") =>
              LET hit == SomeKeyInWaiting(lastKeyList', checks[i].cacheNames) IN
              /\ (pwaUpdateNeeded' /\ updateAlertDisplay' = "block") <=> hit
              /\ ~hit => pwaUpdateNeeded' = pwaUpdateNeeded]_vars

C11_Witness ==
    /\ lastKeyList = <<K_app1, K_assets, K_app2>>
    /\ paramsCacheNames = Names1
    /\ \E i \in 1..Len(checks) : checks[i].pc = "done" /\ checks[i].seen = 1
    /\ pwaUpdateNeeded
    /\ updateAlertDisplay = "block"

\* the part of an identifier before its first digit; all of it when it holds no digit
BeforeFirstDigit(id) ==
    LET at == {i \in 1..Len(id) : id[i] \in {"0", "1", "2", "3", "4", "5", "6", "7", "8", "9"}}
    IN  IF at = {} THEN id
        ELSE SubSeq(id, 1, (CHOOSE i \in at : \A j \in at : i <= j) - 1)

\* C12: for every app cache identifier, the prefix that checkUpdateStatus derives is the
\* part of the identifier before its first digit, also for an identifier without a
\* digit and for one that begins with a digit.
C12_PrefixIsPartBeforeFirstDigit ==
    cachePrefix # <<"unset">> => cachePrefix = BeforeFirstDigit(appId)

\* the identifiers on which line 242 agrees with C12: a digit follows a non-digit first
\* character, or the identifier is one non-digit character or empty
PrefixAgreesWhereDigitFollows ==
    (cachePrefix # <<"unset">> /\ Len(BeforeFirstDigit(appId)) >= 1
        /\ (Len(BeforeFirstDigit(appId)) < Len(appId) \/ Len(appId) = 1))
    => cachePrefix = BeforeFirstDigit(appId)

\* C13: when the settings store hands over no cache names or an error marker, the call
\* changes nothing: the pending-update flag, the banner's visibility, the persistent
\* message and params.cacheNames stay as they were, and caches.keys() is not called
\* for that call, then or later.
C13_NoNamesNoChange ==
    /\ [][\A i \in 1..Len(checks) :
            (checks[i].pc = "getCacheNames" /\ checks'[i].got \in {"null", "error"}) =>
                /\ pwaUpdateNeeded' = pwaUpdateNeeded
                /\ updateAlertDisplay' = updateAlertDisplay
                /\ persistentMessage' = persistentMessage
                /\ paramsCacheNames' = paramsCacheNames
                /\ checks'[i].pc = "done"]_vars
    /\ [](\A i \in 1..Len(checks) :
            checks[i].got \in {"null", "error"} => ~checks[i].enumerated /\ checks[i].seen = 0)

C13_Witness ==
    /\ Len(checks) >= 2
    /\ checks[1].pc = "done" /\ checks[1].got = "error"
    /\ checks[2].pc = "done" /\ checks[2].got = "null"
    /\ paramsCacheNames = NoNames

(***************************************************************************)
(* Claims about applyAppTheme, continued.                                  *)
(***************************************************************************)
\* C14: a call of applyAppTheme made while the embedded document is not accessible
\* throws nothing and injects no stylesheet link, and still updates the shell for the
\* new selector: its appTheme class on <html>, its content class on <footer>, the
\* theme marker, and the help panels (the new selector's panel shown, the previous
\* selector's panel hidden); the return link is not revealed.
C14_InaccessibleDocumentShellOnly ==
    [][(NumThemeCalls' = NumThemeCalls + 1 /\ ~docAccessible) =>
          LET s == themeLog'.calls[NumThemeCalls + 1] IN
          /\ ~themeLog'.threw
          /\ docLinks' = docLinks
          /\ ShellClass(s) \in htmlClasses'
          /\ FooterClassFor(s) \in footerClasses'
          /\ datasetTheme' = s
          /\ \A h \in {S_dark_invert, S_dark_mwInvert} :
                 helpDisplay'[h] = IF h = s THEN "block"
                                   ELSE IF h = datasetTheme THEN "none" ELSE helpDisplay[h]
          /\ viewArticleDisplay' = viewArticleDisplay
          /\ viewArticleHandlers' = viewArticleHandlers]_vars

C14_Witness ==
    /\ ~docAccessible
    /\ configActive
    /\ docLinks = <<>>
    /\ NumThemeCalls >= 2
    /\ themeLog.inRow >= 1
    /\ ThemeCalls[NumThemeCalls - 1] = S_dark_mwInvert
    /\ ThemeCalls[NumThemeCalls] = S_light_invert
    /\ htmlClasses = {S_light}
    /\ footerClasses = {C_invert}
    /\ helpDisplay[S_dark_mwInvert] = "none"
    /\ viewArticleDisplay = "none"

(***************************************************************************)
(* Claims about feedNodeWithBlob, continued.                               *)
(***************************************************************************)
\* C15: the object URL of every call on the blob path is released at most once, only
\* by the load of that very reference (not by the load of another reference fed to
\* the node), and only if the call has set the attribute.
C15_ReleasedOnceByOwnLoad ==
    \A i \in 1..Len(feedCalls) :
        FeedCall(i).path = "blob" =>
            /\ revokeCount[i] <= 1
            /\ revokedFor[i] \subseteq {<<"blob:", i>>}
            /\ revokeCount[i] >= 1 => FeedCall(i).pc = "returned"

\* C16: at most one decode requested through feedNodeWithBlob is in flight at any
\* time, also when a call is made before the decode of an earlier call has settled.
C16_OneDecodeInFlight ==
    Cardinality({i \in 1..Len(feedCalls) : FeedCall(i).pc = "decoding"}) <= 1

C16_Witness ==
    /\ Len(feedCalls) >= 2
    /\ FeedCall(1).path = "webp" /\ FeedCall(1).pc = "decoding"
    /\ FeedCall(2).path = "webp" /\ FeedCall(2).pc = "rejected"
    /\ machineBusy

(***************************************************************************)
(* Claims about checkUpdateStatus and the update banner.                   *)
(***************************************************************************)
\* C17: while the pending-update flag is true and the user has not dismissed the banner
\* since the flag was set, the banner is visible: it is visible when the flag is set,
\* and once visible with the flag true it is hidden only by the user's dismissal (the
\* one step that hides it without finishing a call of checkUpdateStatus), never by the
\* completion of a call that was started before the flag was set.
C17_BannerShownWhileFlagged ==
    /\ [][(~pwaUpdateNeeded /\ pwaUpdateNeeded') => updateAlertDisplay' = "block"]_vars
    /\ [][(pwaUpdateNeeded /\ updateAlertDisplay = "block" /\ checks' # checks)
              => updateAlertDisplay' = "block"]_vars

(***************************************************************************)
(* Claims about the injected stylesheet and the return link.               *)
(***************************************************************************)
\* C18: after any sequence of applyAppTheme calls, against documents that were
\* accessible at some calls and not at others, the embedded document holds at most one
\* injected stylesheet link; and right after a call with a content theme and an
\* accessible document, the link is there, its href names that theme's stylesheet, and
\* the frame carries that theme's class.
C18_OneCurrentStylesheet ==
    /\ Len(docLinks) <= 1
    /\ (NumThemeCalls >= 1 /\ themeLog.inRow >= 1 /\ docAccessible
            /\ FrameClassFor(ThemeCalls[NumThemeCalls]) # <<>>) =>
           /\ docLinks = <<StylesheetFor(FrameClassFor(ThemeCalls[NumThemeCalls]))>>
           /\ FrameClassFor(ThemeCalls[NumThemeCalls]) \in iframeClasses

\* dark_invert on an accessible document, dark_mwInvert on an inaccessible one, then
\* dark_mwInvert again on a newly loaded accessible one
C18_Witness ==
    /\ NumThemeCalls = 3
    /\ ThemeCalls[NumThemeCalls - 2] = S_dark_invert
    /\ ThemeCalls[NumThemeCalls - 1] = S_dark_mwInvert
    /\ ThemeCalls[NumThemeCalls] = S_dark_mwInvert
    /\ themeLog.access = <<TRUE, FALSE, TRUE>>
    /\ themeLog.inRow = 1
    /\ docAccessible
    /\ docLinks = <<StylesheetFor(C_mwInvert)>>
    /\ iframeClasses = {C_mwInvert}

(***************************************************************************)
(* Claims about applyAnimationToSection.                                   *)
(***************************************************************************)
\* the element each section name stands for
ElementOf(section) ==
    CASE section = "home" -> "articleContent"
      [] section = "config" -> "configuration"
      [] section = "about" -> "about"

\* C20: after any sequence of section switches, also with a switch requested before
\* the timers of the one before have fired, once no timer is pending exactly one of
\* the three sections is visible, and it is the section requested last.
C20_LastSectionAloneVisible ==
    (sectionLog.count >= 1 /\ timers = <<>>) =>
        \A e \in {"about", "configuration", "articleContent"} :
            sectionShown[e] <=> e = ElementOf(sectionLog.last)

\* C19: after any number of applyAppTheme calls made while the configuration section
\* is open over a real document, #viewArticle has at most one click listener of this
\* module, and one click runs the return transition once.
C19_OneReturnHandler ==
    /\ viewArticleHandlers <= 1
    /\ returnRuns <= 1

====
